---- MODULE Spec2Model ----
(***************************************************************************)
(* A model of the Airflow Mesos executor: the executor adapter            *)
(* (mesos_executor.py), the offer scheduler (mesos_support/scheduler.py), *)
(* the resource model (mesos_support/resource.py) and the offer filters   *)
(* (mesos_support/filter.py).                                             *)
(*                                                                         *)
(* Scalars are integers (cpus in tenths of a cpu, mem in MB).              *)
(* A function that can raise returns a record [ok, val]; ok = FALSE is    *)
(* the raised exception.                                                   *)
(***************************************************************************)
EXTENDS Integers, Sequences, FiniteSets, TLC

\* ------------------------------------------------------------------ bounds
MaxKeys == 2       \* distinct Airflow task keys
MaxSubmits == 2    \* execute_async calls in one behaviour
MaxBatch == 2      \* offers delivered in one resourceOffers call
MaxRebuilds == 1   \* driver aborts (and session rebuilds) in one behaviour
MaxCounter == 2    \* cap of the scheduler's task_counter
MaxLen == 2        \* length of the lists a pure function is called with
MaxValue == 3      \* largest scalar value of a probe resource

Keys == 1..MaxKeys

\* ------------------------------------------------------- resource.py model
\* MesosScalarResource(name, value)
ScalarResource(n, v) ==
    [kind |-> "scalar", name |-> n, value |-> v, hosts |-> {}, exclude |-> FALSE]

\* MesosHostnameResource(value, exclude): the name is always 'hostname'
HostnameResource(hs, ex) ==
    [kind |-> "hostname", name |-> "hostname", value |-> 0, hosts |-> hs,
     exclude |-> ex]

\* default_resources(): the [mesos] DEFAULT_HOSTNAMES / DEFAULT_RESOURCES of the
\* docstring's example configuration, hostnames first.
default_resources ==
    << ScalarResource("cpus", 1), ScalarResource("mem", 64) >>

\* list.remove(x): drops the first element equal to x, raises ValueError when
\* there is none.
RECURSIVE ListRemove(_, _)
ListRemove(l, x) ==
    IF l = <<>> THEN [ok |-> FALSE, val |-> <<>>]
    ELSE IF Head(l) = x THEN [ok |-> TRUE, val |-> Tail(l)]
    ELSE LET r == ListRemove(Tail(l), x)
         IN  [ok |-> r.ok, val |-> IF r.ok THEN <<Head(l)>> \o r.val ELSE <<>>]

\* the inner loop of merge_resources for one task_resource: every default of
\* the same name is removed from the result list.
RECURSIVE RemoveMatching(_, _, _)
RemoveMatching(resources, defaults, task_resource) ==
    IF defaults = <<>> THEN [ok |-> TRUE, val |-> resources]
    ELSE IF task_resource.name = Head(defaults).name
         THEN LET r == ListRemove(resources, Head(defaults))
              IN  IF r.ok
                  THEN RemoveMatching(r.val, Tail(defaults), task_resource)
                  ELSE [ok |-> FALSE, val |-> <<>>]
         ELSE RemoveMatching(resources, Tail(defaults), task_resource)

RECURSIVE MergeLoop(_, _, _)
MergeLoop(resources, defaults, task_resources) ==
    IF task_resources = <<>> THEN [ok |-> TRUE, val |-> resources]
    ELSE LET r == RemoveMatching(resources, defaults, Head(task_resources))
         IN  IF r.ok
             THEN MergeLoop(Append(r.val, Head(task_resources)), defaults,
                            Tail(task_resources))
             ELSE [ok |-> FALSE, val |-> <<>>]

merge_resources(defaults, task_resources) ==
    MergeLoop(defaults, defaults, task_resources)

\* ---------------------------------------------------------- filter.py model
\* A filter check returns "T" (match), "F" (no match) or "X" (raises).
Bool3(b) == IF b THEN "T" ELSE "F"

\* one resource of an offer
OfferResource(n, t, v, rs) ==
    [name |-> n, type |-> t, scalar |-> v, ranges |-> rs]

\* AirflowMesosResourceFilter.get_resource: the resources of that name
RECURSIVE FoundResources(_, _)
FoundResources(resources, n) ==
    IF resources = <<>> THEN <<>>
    ELSE (IF Head(resources).name = n THEN <<Head(resources)>> ELSE <<>>)
         \o FoundResources(Tail(resources), n)

\* a scalar check that does not match on equality
check_scalar_strict(f, offer_resource) ==
    IF f.mode = "include" THEN Bool3(f.value < offer_resource.scalar)
    ELSE IF f.mode = "exclude" THEN Bool3(f.value >= offer_resource.scalar)
    ELSE "X"

check_scalar(f, offer_resource) ==
    IF f.mode = "include" THEN Bool3(f.value <= offer_resource.scalar)
    ELSE IF f.mode = "exclude" THEN Bool3(f.value > offer_resource.scalar)
    ELSE "X"

InRange(v, r) == r[1] <= v /\ v <= r[2]

check_range(f, offer_resource) ==
    LET in_range == InRange(f.value, offer_resource.ranges[1])
    IN  IF f.mode = "include" THEN Bool3(in_range)
        ELSE IF f.mode = "exclude" THEN Bool3(~in_range)
        ELSE "X"

\* a check of a set of ranges that looks at its first range only
check_ranges_first(f, offer_resource) ==
    LET in_range == /\ offer_resource.ranges # <<>>
                    /\ InRange(f.value, offer_resource.ranges[1])
    IN  IF f.mode = "include" THEN Bool3(in_range)
        ELSE IF f.mode = "exclude" THEN Bool3(~in_range)
        ELSE "X"

check_ranges(f, offer_resource) ==
    LET in_range == \E i \in 1..Len(offer_resource.ranges) :
                        InRange(f.value, offer_resource.ranges[i])
    IN  IF f.mode = "include" THEN Bool3(in_range)
        ELSE IF f.mode = "exclude" THEN Bool3(~in_range)
        ELSE "X"

\* a check that takes what it cannot evaluate for a resource that does not match
ResourceFilterCheck_lenient(f, offer) ==
    LET found == FoundResources(offer.resources, f.name)
    IN  IF Len(found) # 1 THEN "F"
        ELSE IF found[1].type = "SCALAR" THEN check_scalar(f, found[1])
        ELSE IF found[1].type = "RANGE" THEN check_range(f, found[1])
        ELSE IF found[1].type = "RANGES" THEN check_ranges(f, found[1])
        ELSE "F"

\* AirflowMesosResourceFilter.check
ResourceFilterCheck(f, offer) ==
    LET found == FoundResources(offer.resources, f.name)
    IN  IF Len(found) > 1 THEN "X"
        ELSE IF Len(found) < 1 THEN "F"
        ELSE IF found[1].type = "SCALAR" THEN check_scalar(f, found[1])
        ELSE IF found[1].type = "RANGE" THEN check_range(f, found[1])
        ELSE IF found[1].type = "RANGES" THEN check_ranges(f, found[1])
        ELSE "X"

\* AirflowMesosHostnameFilter.check
HostnameFilterCheck(f, offer) ==
    LET has_hostname == offer.hostname \in f.hosts \/ "*" \in f.hosts
    IN  IF ~f.exclude THEN Bool3(has_hostname) ELSE Bool3(~has_hostname)

\* MesosScalarResource.to_filter / MesosHostnameResource.to_filter
to_filter(r) ==
    IF r.kind = "scalar"
    THEN [kind |-> "resource", name |-> r.name, value |-> r.value,
          mode |-> "include", hosts |-> {}, exclude |-> FALSE]
    ELSE [kind |-> "hostname", name |-> r.name, value |-> 0,
          mode |-> "include", hosts |-> r.hosts, exclude |-> r.exclude]

FilterCheck(f, offer) ==
    IF f.kind = "resource" THEN ResourceFilterCheck(f, offer)
    ELSE HostnameFilterCheck(f, offer)

\* a composite filter that evaluates every constituent before it decides
RECURSIVE OfferFilterCheck_eager(_, _)
OfferFilterCheck_eager(filters, offer) ==
    IF filters = <<>> THEN "T"
    ELSE LET c == FilterCheck(Head(filters), offer)
             rest == OfferFilterCheck_eager(Tail(filters), offer)
         IN  IF c = "X" \/ rest = "X" THEN "X"
             ELSE IF c = "T" THEN rest ELSE "F"

\* AirflowMesosOfferFilter.check: the first constituent that does not match
\* decides; a constituent that raises ends the evaluation.
RECURSIVE OfferFilterCheck(_, _)
OfferFilterCheck(filters, offer) ==
    IF filters = <<>> THEN "T"
    ELSE LET c == FilterCheck(Head(filters), offer)
         IN  IF c = "T" THEN OfferFilterCheck(Tail(filters), offer) ELSE c

\* ------------------------------------------------------- scheduler.py model
\* mesos_pb2 task states delivered by statusUpdate
TaskStates ==
    {"TASK_STAGING", "TASK_RUNNING", "TASK_FINISHED", "TASK_FAILED",
     "TASK_KILLED", "TASK_ERROR", "TASK_LOST", "TASK_DROPPED", "TASK_GONE"}

\* the states statusUpdate resolves to a result
HandledTerminal ==
    {"TASK_FINISHED", "TASK_FAILED", "TASK_KILLED", "TASK_ERROR", "TASK_LOST"}

\* task.task_id.value = "airflow:%d:%s:%s:%s" % (tid, key...): the pair of
\* the counter value and the key
TaskId(tid, key) == <<tid, key>>
TaskIds == (0..(MaxCounter - 1)) \X Keys

\* self.current_task = None
NoTask == [key |-> 0, sub |-> 0, op |-> 0]

\* The mesos_resources an operator may declare (operator_task.mesos_resources);
\* choice 0 is an operator without the attribute.
OperatorResources ==
    << << ScalarResource("cpus", 40) >>,
       << ScalarResource("cpus", 40), ScalarResource("cpus", 20) >> >>
OperatorChoices == 0..Len(OperatorResources)

\* The kinds of offer the master may deliver (hostname and resources).
OfferKinds ==
    << [hostname |-> "h1",
        resources |-> << OfferResource("cpus", "SCALAR", 20, <<>>),
                         OfferResource("mem", "SCALAR", 128, <<>>) >>],
       [hostname |-> "h2",
        resources |-> << OfferResource("cpus", "SCALAR", 40, <<>>),
                         OfferResource("mem", "SCALAR", 128, <<>>) >>],
       [hostname |-> "h2",
        resources |-> << OfferResource("cpus", "SCALAR", 10, <<>>),
                         OfferResource("cpus", "SCALAR", 10, <<>>),
                         OfferResource("mem", "SCALAR", 128, <<>>) >>] >>

\* an offer of a delivered batch: its id is its position in the batch, its
\* hostname and resources those of OfferKinds[kind]
Offer(i, k) == [id |-> i, kind |-> k]

Batches ==
    UNION { { [i \in 1..n |-> Offer(i, ks[i])] :
              ks \in [1..n -> 1..Len(OfferKinds)] } : n \in 1..MaxBatch }

\* Where an external collaborator raises during a round: at loop iteration
\* `at`, in requirement resolution ("resolve": the DAG lookup) or, once an
\* offer is found, in task construction or the launch request ("launch").
\* The release requests carry offer ids and no task and do not raise.
Faults ==
    { [at |-> 0, kind |-> "none"] }
    \cup { [at |-> n, kind |-> k] :
           n \in 1..MaxBatch, k \in {"resolve", "launch"} }

RECURSIVE OfferIds(_)
OfferIds(offers) ==
    IF offers = <<>> THEN <<>> ELSE <<Head(offers).id>> \o OfferIds(Tail(offers))

\* an except block that releases the working pool only
ReleaseOnError_available(offers, available_offers) == OfferIds(available_offers)

\* [offer.id for offer in offers] of the except block
ReleaseOnError(offers, available_offers) == OfferIds(offers)

\* get_operator_mesos_resources
get_operator_mesos_resources(task) ==
    IF task.op = 0 THEN [ok |-> TRUE, val |-> default_resources]
    ELSE merge_resources(default_resources, OperatorResources[task.op])

\* [r.to_filter() for r in needed_resources]
Filters(needed_resources) ==
    [i \in 1..Len(needed_resources) |-> to_filter(needed_resources[i])]

\* The requirements of every operator choice and the verdict of its composite
\* filter on every kind of offer, computed once.
NeededOf ==
    [op \in OperatorChoices |-> get_operator_mesos_resources([op |-> op])]
CheckOf ==
    [op \in OperatorChoices |->
        [k \in 1..Len(OfferKinds) |->
            IF NeededOf[op].ok
            THEN OfferFilterCheck(Filters(NeededOf[op].val), OfferKinds[k])
            ELSE "X"]]

\* find_offer: the position in `offers` of the first offer the composite
\* filter accepts (0: none); ok = FALSE when a filter raises on the way.
RECURSIVE FindFrom(_, _, _)
FindFrom(offers, op, i) ==
    IF i > Len(offers) THEN [ok |-> TRUE, val |-> 0]
    ELSE LET c == CheckOf[op][offers[i].kind]
         IN  IF c = "X" THEN [ok |-> FALSE, val |-> 0]
             ELSE IF c = "T" THEN [ok |-> TRUE, val |-> i]
             ELSE FindFrom(offers, op, i + 1)

\* a scan that returns the last offer the composite filter accepts
find_offer_last(offers, task) ==
    [ok |-> \A i \in 1..Len(offers) : CheckOf[task.op][offers[i].kind] # "X",
     val |-> IF \E i \in 1..Len(offers) : CheckOf[task.op][offers[i].kind] = "T"
             THEN CHOOSE i \in 1..Len(offers) :
                     /\ CheckOf[task.op][offers[i].kind] = "T"
                     /\ \A j \in (i + 1)..Len(offers) :
                            CheckOf[task.op][offers[j].kind] # "T"
             ELSE 0]

find_offer(offers, task) == FindFrom(offers, task.op, 1)

\* build_task_info: the id built and the counter after it
build_task_info(task_counter, key) ==
    [id |-> TaskId(task_counter, key), counter |-> task_counter + 1]

\* self.mesos_task_to_airflow_task[id] = {'key': key, 'status': status}
PutEntry(t, id, key, status) ==
    [x \in (DOMAIN t) \cup {id} |->
        IF x = id THEN [key |-> key, status |-> status] ELSE t[x]]

\* a pop that leaves the entry in place
PopEntry_keep(t, id) == t

\* self.mesos_task_to_airflow_task.pop(id)
PopEntry(t, id) == [x \in (DOMAIN t) \ {id} |-> t[x]]

\* available_offers.remove(on_offer)
RemoveAt(s, i) == SubSeq(s, 1, i - 1) \o SubSeq(s, i + 1, Len(s))

\* launch_current_task; fk is the fault of this iteration. st is the round's
\* state: queue, current, avail, counter, tracking, calls (the launchTasks
\* requests made so far), log (the <<sub, id>> launched so far).
\* launch_with is its body, given the requirements resolved (needed), the
\* offer found (found) and the task built (built).
launch_with(st, fk, needed, found, built) ==
        IF fk = "resolve"
        THEN [raised |-> TRUE, fired |-> TRUE, offer |-> 0, st |-> st]
        ELSE IF ~needed.ok \/ ~found.ok
        THEN [raised |-> TRUE, fired |-> FALSE, offer |-> 0, st |-> st]
        ELSE IF found.val = 0
        THEN [raised |-> FALSE, fired |-> FALSE, offer |-> 0, st |-> st]
        ELSE IF fk = "launch"
        THEN [raised |-> TRUE, fired |-> TRUE, offer |-> 0,
              st |-> [st EXCEPT !.counter = built.counter]]
        ELSE [raised |-> FALSE, fired |-> FALSE, offer |-> found.val,
              st |-> [st EXCEPT
                  !.counter = built.counter,
                  !.calls = Append(@, [offers |-> <<st.avail[found.val].id>>,
                                       tasks |-> <<built.id>>]),
                  !.tracking = PutEntry(@, built.id, st.current.key, "None"),
                  !.log = Append(@, <<st.current.sub, built.id>>)]]

launch_current_task(st, fk) ==
    launch_with(st, fk, NeededOf[st.current.op],
                find_offer(st.avail, st.current),
                build_task_info(st.counter, st.current.key))

\* the while loop of resourceOffers; n counts its iterations
\* next_task: the item the iteration works on is the current one, else the
\* queue's head, which becomes the current one. after_launch: the rest of the
\* iteration, given the outcome r of launch_current_task.
next_task(st) ==
    IF st.current = NoTask
    THEN [st EXCEPT !.current = Head(st.queue), !.queue = Tail(st.queue)]
    ELSE st

RECURSIVE MatchLoop(_, _, _)

\* an iteration that leaves the item it launched in the current slot
after_launch_keep(r, fault, n) ==
    IF r.raised THEN [r.st EXCEPT !.raised = TRUE, !.fired = r.fired]
    ELSE IF r.offer # 0
    THEN MatchLoop([r.st EXCEPT !.avail = RemoveAt(@, r.offer)], fault, n + 1)
    ELSE MatchLoop([r.st EXCEPT !.loop = FALSE], fault, n + 1)

after_launch(r, fault, n) ==
    IF r.raised THEN [r.st EXCEPT !.raised = TRUE, !.fired = r.fired]
    ELSE IF r.offer # 0
    THEN MatchLoop([r.st EXCEPT !.current = NoTask,
                                !.avail = RemoveAt(@, r.offer)],
                   fault, n + 1)
    ELSE MatchLoop([r.st EXCEPT !.loop = FALSE], fault, n + 1)

MatchLoop(st, fault, n) ==
    IF (st.queue # <<>> \/ st.current # NoTask) /\ st.avail # <<>> /\ st.loop
    THEN after_launch(launch_current_task(next_task(st),
                                          IF fault.at = n THEN fault.kind
                                          ELSE "none"),
                      fault, n)
    ELSE st

\* resourceOffers(driver, offers): the round's state at its end. fired: the
\* fault given was reached and raised.
\* end_round: the release request that ends the round, after the loop (s).
end_round(s, offers) ==
    IF s.raised
    THEN [s EXCEPT !.calls = Append(@, [offers |-> ReleaseOnError(offers, s.avail),
                                        tasks |-> <<>>])]
    ELSE [s EXCEPT !.calls = Append(@, [offers |-> OfferIds(s.avail),
                                        tasks |-> <<>>])]

resourceOffers(queue, current, counter, tracking, offers, fault) ==
    end_round(MatchLoop([queue |-> queue, current |-> current, avail |-> offers,
                         counter |-> counter, tracking |-> tracking,
                         calls |-> <<>>, log |-> <<>>, loop |-> TRUE,
                         raised |-> FALSE, fired |-> FALSE], fault, 1),
              offers)

\* a classification that leaves TASK_LOST unhandled
StatusResult_lostIgnored(state) ==
    IF state = "TASK_FINISHED" THEN "SUCCESS"
    ELSE IF state \in {"TASK_FAILED", "TASK_KILLED", "TASK_ERROR"} THEN "FAILED"
    ELSE "NONE"

\* a result rule that treats a task reported gone as failed
StatusResult_goneFails(state) ==
    IF state = "TASK_FINISHED" THEN "SUCCESS"
    ELSE IF state \in {"TASK_FAILED", "TASK_KILLED", "TASK_ERROR", "TASK_LOST",
                       "TASK_GONE"}
    THEN "FAILED"
    ELSE "NONE"

\* the result statusUpdate puts for a state ("NONE": no result)
StatusResult(state) ==
    IF state = "TASK_FINISHED" THEN "SUCCESS"
    ELSE IF state \in {"TASK_FAILED", "TASK_KILLED", "TASK_ERROR", "TASK_LOST"}
    THEN "FAILED"
    ELSE "NONE"

\* a statusUpdate that fails the key of an unrecognised task id
statusUpdate_unknownFails(tracking, results, task_id, state) ==
    IF task_id \notin DOMAIN tracking
    THEN [tracking |-> tracking,
          results |-> Append(results, <<task_id[2], "FAILED">>)]
    ELSE LET key == tracking[task_id].key
             t1 == PutEntry(tracking, task_id, key, state)
         IN  IF StatusResult(state) = "NONE"
             THEN [tracking |-> t1, results |-> results]
             ELSE [tracking |-> PopEntry(t1, task_id),
                   results |-> Append(results, <<key, StatusResult(state)>>)]

\* statusUpdate(driver, status): the tracking mapping and the result queue
\* after it
statusUpdate(tracking, results, task_id, state) ==
    IF task_id \notin DOMAIN tracking
    THEN [tracking |-> tracking, results |-> results]
    ELSE LET key == tracking[task_id].key
             t1 == PutEntry(tracking, task_id, key, state)
         IN  IF StatusResult(state) = "NONE"
             THEN [tracking |-> t1, results |-> results]
             ELSE [tracking |-> PopEntry(t1, task_id),
                   results |-> Append(results, <<key, StatusResult(state)>>)]

\* a reconcile that sends its snapshot whether or not a task is tracked
reconcile_unguarded(tracking) ==
    << { [task_id |-> id, state |-> tracking[id].status] :
         id \in { x \in DOMAIN tracking : tracking[x].status # "None" } } >>

\* reconcile(driver): the reconcileTasks requests it makes (none or one), each
\* the set of statuses sent
reconcile(tracking) ==
    IF DOMAIN tracking # {}
    THEN << { [task_id |-> id, state |-> tracking[id].status] :
              id \in { x \in DOMAIN tracking : tracking[x].status # "None" } } >>
    ELSE <<>>

\* -------------------------------------------------- mesos_executor.py model
\* a mesos_suppress_revive that does not set the flag when it suppresses
mesos_suppress_revive_noflag(queue, flag) ==
    LET first == IF queue = <<>> /\ ~flag
                 THEN [suppressed |-> flag, reqs |-> <<"suppress">>]
                 ELSE [suppressed |-> flag, reqs |-> <<>>]
    IN  IF queue # <<>> /\ first.suppressed
        THEN [suppressed |-> FALSE, reqs |-> Append(first.reqs, "revive")]
        ELSE first

\* mesos_suppress_revive: the flag after it and the requests it sends to the
\* driver, in order
mesos_suppress_revive(queue, flag) ==
    LET first == IF queue = <<>> /\ ~flag
                 THEN [suppressed |-> TRUE, reqs |-> <<"suppress">>]
                 ELSE [suppressed |-> flag, reqs |-> <<>>]
    IN  IF queue # <<>> /\ first.suppressed
        THEN [suppressed |-> FALSE, reqs |-> Append(first.reqs, "revive")]
        ELSE first

\* a rebuild that hands the new scheduler a fresh mapping
build_scheduler_fresh(mapping) ==
    [current_task |-> NoTask, task_counter |-> 0, tracking |-> << >>]

\* build_scheduler: a new scheduler object, its own fields as its __init__
\* sets them; the tracking mapping is the executor's dict, passed in.
build_scheduler(mapping) ==
    [current_task |-> NoTask, task_counter |-> 0, tracking |-> mapping]

\* a sync_mesos without the reconciliation forced after a restart
sync_mesos_unforced(aborted, mapping, due, reqs) ==
    [events |-> (IF aborted THEN <<"start">> ELSE <<>>)
                \o (IF due THEN <<"reconcile">> ELSE <<>>) \o reqs,
     reconciles |-> IF due THEN reconcile(mapping) ELSE <<>>]

\* sync_mesos: what it does, in order (events: "start" is self.start(), the
\* rebuild and start of the session; "reconcile" a call of scheduler.reconcile;
\* then the suppress/revive requests reqs of mesos_suppress_revive), and the
\* reconcileTasks requests the driver receives. aborted: the driver reported
\* DRIVER_ABORTED; mapping: the mapping of the scheduler in use after the
\* restart, if any; due: the reconcile interval has passed.
sync_mesos(aborted, mapping, due, reqs) ==
    [events |-> (IF aborted THEN <<"start", "reconcile">> ELSE <<>>)
                \o (IF due THEN <<"reconcile">> ELSE <<>>) \o reqs,
     reconciles |-> (IF aborted THEN reconcile(mapping) ELSE <<>>)
                    \o (IF due THEN reconcile(mapping) ELSE <<>>)]

\* sync_results: change_state(key, state) of every result removes the key from
\* the caller's running set
RECURSIVE ResultKeys(_)
ResultKeys(results) ==
    IF results = <<>> THEN {} ELSE {Head(results)[1]} \cup ResultKeys(Tail(results))

\* ------------------------------------------------------------------- state
VARIABLES
    scheduler_tasks,    \* the submission queue: items [key, sub, op]
    scheduler_results,  \* the result queue: <<key, state>>
    tracking,           \* mesos_task_to_airflow_task: id -> [key, status]
    current_task,       \* the scheduler's current slot
    task_counter,       \* the scheduler's task counter
    suppressed,         \* the executor's flag
    driver_status,      \* "running" or "aborted"
    driver_offers,      \* the last suppress/revive request the driver in use got
    running,            \* keys submitted whose result the caller has not taken
    queued,             \* keys queued by queue_command and not submitted yet
    end_pc,             \* end(): "none" (not called), "waiting" (in its loop), "done"
    nsub,               \* history: number of submissions
    rebuilds,           \* history: number of driver aborts
    launchLog,          \* history: submission -> [key, the id it was launched
                        \* with last, n: the launch requests issued for it]
    emitted,            \* history: id -> number of results put for it
    unresolved,         \* history: ids launched, no handled terminal status since
    last,               \* history: the last step
    probe               \* a call of a pure function: its inputs and its result

svars == << scheduler_tasks, scheduler_results, tracking, current_task,
            task_counter, suppressed, driver_status, driver_offers, running,
            queued, end_pc, nsub, rebuilds, launchLog, emitted, unresolved,
            last >>

vars == << svars, probe >>

\* last: op, the operation; for statusUpdate: tracked (the id was in the
\* mapping), the id when it was tracked or had a result put before, and the
\* state when it was tracked; for execute_async and sync: reqs, the suppress/revive
\* requests sent, rebuilt and reconciles (the reconcileTasks requests sent);
\* for sync: due and events (what sync_mesos did, in order), stopped (it was
\* the last sync of end(), driver.stop() followed) and waited (the loop of
\* end() had run before);
\* for resourceOffers: n, the number of offers delivered, calls, the
\* launchTasks requests made, raised (the round ended in the except block)
\* and fit (the first offer of the batch that the composite filter of the item
\* first in line accepts, 0: none).
NoLast ==
    [op |-> "init", id |-> <<>>, state |-> "", tracked |-> FALSE,
     reqs |-> <<>>, n |-> 0, calls |-> <<>>,
     raised |-> FALSE, fit |-> 0, rebuilt |-> FALSE, reconciles |-> <<>>,
     due |-> FALSE, events |-> <<>>, stopped |-> FALSE, waited |-> FALSE]

\* probe: fn, the function called ("none": no call); its inputs: defaults and
\* overrides (merge_resources), filters and offer (a filter's check), queue,
\* current and batch (a round of resourceOffers: the submission queue, the
\* current slot and the offers delivered); done and result once the call has
\* returned: ok (it did not raise) and val for merge_resources, verdict ("T",
\* "F", "X") for a check, calls (the requests sent) and log (the launches, as
\* pairs of submission and task id) for a round.
NoResult ==
    [ok |-> FALSE, val |-> <<>>, verdict |-> "", calls |-> <<>>, log |-> <<>>]
NoProbe ==
    [fn |-> "none", done |-> FALSE, defaults |-> <<>>, overrides |-> <<>>,
     filters |-> <<>>, offer |-> [hostname |-> "", resources |-> <<>>],
     queue |-> <<>>, current |-> NoTask, batch |-> <<>>,
     result |-> NoResult]

\* MesosExecutor.__init__ followed by start()
SessionInit ==
    /\ scheduler_tasks = <<>>
    /\ scheduler_results = <<>>
    /\ tracking = build_scheduler(<< >>).tracking
    /\ current_task = build_scheduler(<< >>).current_task
    /\ task_counter = build_scheduler(<< >>).task_counter
    /\ suppressed = FALSE
    /\ driver_status = "running"
    /\ driver_offers = "none"
    /\ running = {}
    /\ queued = {}
    /\ end_pc = "none"
    /\ nsub = 0
    /\ rebuilds = 0
    /\ launchLog = <<>>
    /\ emitted = [id \in TaskIds |-> 0]
    /\ unresolved = {}
    /\ last = NoLast

Init == SessionInit /\ probe = NoProbe

LastReq(reqs, before) == IF reqs = <<>> THEN before ELSE reqs[Len(reqs)]

\* queue_command(task_instance, command): the key joins the queued set
\* unless it is queued or running already
Queue(k) ==
    /\ end_pc = "none"
    /\ nsub + Cardinality(queued) < MaxSubmits
    /\ k \notin queued /\ k \notin running
    /\ queued' = queued \cup {k}
    /\ last' = [NoLast EXCEPT !.op = "queue_command"]
    /\ UNCHANGED << probe, scheduler_tasks, scheduler_results, tracking,
                    current_task, task_counter, suppressed, driver_status,
                    driver_offers, running, end_pc, nsub, rebuilds, launchLog,
                    emitted, unresolved >>

\* execute_async(key, command), called by the caller's heartbeat for a queued
\* key, which it moves to its running set
Submit(k, op) ==
    /\ end_pc = "none"
    /\ nsub < MaxSubmits
    /\ k \in queued
    /\ k \notin running
    /\ queued' = queued \ {k}
    /\ LET queue == Append(scheduler_tasks, [key |-> k, sub |-> nsub + 1, op |-> op])
           sr == mesos_suppress_revive(queue, suppressed)
       IN  /\ scheduler_tasks' = queue
           /\ suppressed' = sr.suppressed
           /\ driver_offers' = LastReq(sr.reqs, driver_offers)
           /\ last' = [NoLast EXCEPT !.op = "execute_async", !.reqs = sr.reqs]
    /\ running' = running \cup {k}
    /\ nsub' = nsub + 1
    /\ launchLog' = Append(launchLog, [key |-> k, id |-> <<>>, n |-> 0])
    /\ UNCHANGED << probe, scheduler_results, tracking, current_task, task_counter,
                    driver_status, end_pc, rebuilds, emitted, unresolved >>

\* sync(): sync_mesos, then sync_results. due: the reconcile interval has
\* passed. stop: it is the last sync() of end(), and driver.stop() follows.
sync(due, stop) ==
    LET aborted == driver_status = "aborted"
        built == build_scheduler(tracking)
        mapping == IF aborted THEN built.tracking ELSE tracking
        sr == mesos_suppress_revive(scheduler_tasks, suppressed)
        sm == sync_mesos(aborted, mapping, due, sr.reqs)
    IN  /\ driver_status' = IF stop THEN "stopped" ELSE "running"
        /\ tracking' = mapping
        /\ current_task' = IF aborted THEN built.current_task ELSE current_task
        /\ task_counter' = IF aborted THEN built.task_counter ELSE task_counter
        /\ suppressed' = sr.suppressed
        /\ driver_offers' = LastReq(sr.reqs, IF aborted THEN "none" ELSE driver_offers)
        /\ scheduler_results' = <<>>
        /\ running' = running \ ResultKeys(scheduler_results)
        /\ last' = [NoLast EXCEPT !.op = "sync", !.reqs = sr.reqs,
                                  !.rebuilt = aborted,
                                  !.reconciles = sm.reconciles,
                                  !.due = due, !.events = sm.events,
                                  !.stopped = stop,
                                  !.waited = stop /\ end_pc = "waiting"]
        /\ UNCHANGED << probe, scheduler_tasks, queued, nsub, rebuilds,
                        launchLog, emitted, unresolved >>

\* sync(), called by the caller's heartbeat
Sync(due) ==
    /\ end_pc = "none"
    /\ sync(due, FALSE)
    /\ UNCHANGED end_pc

\* a loop condition of end() that looks at the running set only
end_waits_running(r, q) == r # {}

\* while self.running or self.queued_tasks
end_waits(r, q) == r # {} \/ q # {}

\* one turn of the loop of end(), the first one when end() is called or a
\* later one: running or queued_tasks is not empty, sync() and sleep
EndWait(due) ==
    /\ end_pc \in {"none", "waiting"}
    /\ end_waits(running, queued)
    /\ sync(due, FALSE)
    /\ end_pc' = "waiting"

\* the loop of end() is over: sync(), driver.stop(), return
EndStop(due) ==
    /\ end_pc \in {"none", "waiting"}
    /\ ~end_waits(running, queued)
    /\ sync(due, TRUE)
    /\ end_pc' = "done"

\* the driver aborts: terminate(), or an unrecoverable driver error
Abort ==
    /\ driver_status = "running"
    /\ rebuilds < MaxRebuilds
    /\ driver_status' = "aborted"
    /\ rebuilds' = rebuilds + 1
    /\ last' = [NoLast EXCEPT !.op = "abort"]
    /\ UNCHANGED << probe, scheduler_tasks, scheduler_results, tracking, current_task,
                    task_counter, suppressed, driver_offers, running, queued,
                    end_pc, nsub, launchLog, emitted, unresolved >>

RECURSIVE LogLaunches(_, _)
LogLaunches(log, launches) ==
    IF launches = <<>> THEN log
    ELSE LogLaunches([log EXCEPT ![Head(launches)[1]].id = Head(launches)[2],
                                 ![Head(launches)[1]].n = @ + 1],
                     Tail(launches))

LaunchedIds(launches) == { launches[i][2] : i \in 1..Len(launches) }

\* the item first in line for an offer: the current one, else the queue's head
FirstInLine ==
    IF current_task # NoTask THEN current_task
    ELSE IF scheduler_tasks # <<>> THEN Head(scheduler_tasks)
    ELSE NoTask

\* the first offer of `offers` that the composite filter of `task` accepts
FirstFit(task, offers) ==
    LET fits == { i \in 1..Len(offers) :
                    task # NoTask /\ CheckOf[task.op][offers[i].kind] = "T" }
    IN  IF fits = {} THEN 0 ELSE CHOOSE i \in fits : \A j \in fits : i <= j

\* the resourceOffers callback of the running driver
ResourceOffers(offers, fault) ==
    /\ driver_status = "running"
    /\ fault.at <= Len(offers)
    /\ fault.at <= Len(scheduler_tasks) + (IF current_task = NoTask THEN 0 ELSE 1)
    /\ \E s \in { resourceOffers(scheduler_tasks, current_task, task_counter,
                                  tracking, offers, fault) } :
           /\ fault.kind = "none" \/ s.fired
           /\ s.counter <= MaxCounter
           /\ scheduler_tasks' = s.queue
           /\ current_task' = s.current
           /\ task_counter' = s.counter
           /\ tracking' = s.tracking
           /\ launchLog' = LogLaunches(launchLog, s.log)
           /\ unresolved' = unresolved \cup LaunchedIds(s.log)
           /\ last' = [NoLast EXCEPT !.op = "resourceOffers",
                                     !.n = Len(offers), !.calls = s.calls,
                                     !.raised = s.raised,
                                     !.fit = FirstFit(FirstInLine, offers)]
    /\ UNCHANGED << probe, scheduler_results, suppressed, driver_status, driver_offers,
                    running, queued, end_pc, nsub, rebuilds, emitted >>

\* the statusUpdate callback of the running driver
StatusUpdate(task_id, state) ==
    /\ driver_status = "running"
    /\ LET s == statusUpdate(tracking, scheduler_results, task_id, state)
       IN  /\ tracking' = s.tracking
           /\ scheduler_results' = s.results
           /\ emitted' = [emitted EXCEPT ![task_id] =
                              @ + Len(s.results) - Len(scheduler_results)]
    /\ unresolved' = IF state \in HandledTerminal THEN unresolved \ {task_id}
                     ELSE unresolved
    /\ last' = IF task_id \in DOMAIN tracking
               THEN [NoLast EXCEPT !.op = "statusUpdate", !.tracked = TRUE,
                                   !.id = task_id, !.state = state]
               ELSE IF emitted[task_id] > 0
               THEN [NoLast EXCEPT !.op = "statusUpdate", !.id = task_id]
               ELSE [NoLast EXCEPT !.op = "statusUpdate"]
    /\ UNCHANGED << probe, scheduler_tasks, current_task, task_counter, suppressed,
                    driver_status, driver_offers, running, queued, end_pc, nsub,
                    rebuilds, launchLog >>

Next ==
    \/ \E k \in Keys : Queue(k)
    \/ \E k \in Keys, op \in OperatorChoices : Submit(k, op)
    \/ \E due \in BOOLEAN : Sync(due)
    \/ \E due \in BOOLEAN : EndWait(due)
    \/ \E due \in BOOLEAN : EndStop(due)
    \/ Abort
    \/ \E offers \in Batches, fault \in Faults : ResourceOffers(offers, fault)
    \/ \E task_id \in TaskIds, state \in TaskStates : StatusUpdate(task_id, state)

Spec == Init /\ [][Next]_vars

\* the loop of end() keeps running: the caller's thread sleeps and goes on
EndLoop == end_pc = "waiting" /\ \E due \in BOOLEAN : EndWait(due) \/ EndStop(due)

LiveSpec == Init /\ [][Next]_vars /\ WF_vars(EndLoop)

\* the caller's heartbeat keeps calling sync(), directly or from the loop of
\* end()
CallerSync == \E due \in BOOLEAN : Sync(due) \/ EndWait(due)

\* the manager delivers, while the offers of the driver are not suppressed, a
\* batch of one offer that fits the item first in line, and no collaborator
\* raises in that round
FairOffer ==
    /\ driver_offers # "suppress"
    /\ FirstInLine # NoTask
    /\ \E k \in 1..Len(OfferKinds) :
           /\ CheckOf[FirstInLine.op][k] = "T"
           /\ ResourceOffers(<<Offer(1, k)>>, [at |-> 0, kind |-> "none"])

FairSpec == Init /\ [][Next]_vars /\ WF_vars(CallerSync) /\ WF_vars(FairOffer)

\* ------------------------------------------- the pure functions, called alone
\* sequences of at most n elements of S
SeqsUpTo(S, n) == UNION { [1..m -> S] : m \in 0..n }

\* the resources merged: scalar resources of two names and two values, and a
\* hostname resource
ProbeResources ==
    { ScalarResource(n, v) : n \in {"cpus", "mem"}, v \in {1, MaxValue} }
    \cup { HostnameResource({"h1"}, FALSE) }

\* the resources an offer may expose: under the name the filters ask for, a
\* scalar, a range, a set of ranges, a set or a text; under another name, a
\* scalar
ProbeRanges == { <<1, 2>>, <<MaxValue, MaxValue>> }
ProbeOfferResources ==
    { OfferResource("cpus", "SCALAR", v, <<>>) : v \in 1..MaxValue }
    \cup { OfferResource("cpus", "RANGE", 0, <<r>>) : r \in ProbeRanges }
    \cup { OfferResource("cpus", "RANGES", 0, rs) :
             rs \in SeqsUpTo(ProbeRanges, MaxLen) }
    \cup { OfferResource("cpus", t, 0, <<>>) : t \in {"SET", "TEXT"} }
    \cup { OfferResource("mem", "SCALAR", MaxValue, <<>>) }

\* offers exposing at most n resources
ProbeOffers(n) ==
    { [hostname |-> h, resources |-> rs] :
        h \in {"h1"}, rs \in SeqsUpTo(ProbeOfferResources, n) }

\* AirflowMesosResourceFilter(name, value, mode)
ResourceFilter(n, v, m) ==
    [kind |-> "resource", name |-> n, value |-> v, mode |-> m,
     hosts |-> {}, exclude |-> FALSE]

ProbeResourceFilters ==
    { ResourceFilter("cpus", v, m) : v \in 1..MaxValue, m \in {"include", "exclude"} }

\* the constituents of a composite filter: resource filters and the filters
\* of hostname resources
ProbeFilters ==
    { ResourceFilter("cpus", 2, m) : m \in {"include", "exclude"} }
    \cup { to_filter(HostnameResource({h}, ex)) : h \in {"h1", "h2"}, ex \in BOOLEAN }

\* the work items of a round: one per operator choice of `ops`, in submission
\* order; the first is in the current slot when a former round left it there
ProbeItems(ops) == [i \in 1..Len(ops) |-> [key |-> i, sub |-> i, op |-> ops[i]]]

ProbeInputs ==
    { [NoProbe EXCEPT !.fn = "merge_resources", !.defaults = d, !.overrides = o] :
        d \in SeqsUpTo(ProbeResources, MaxLen), o \in SeqsUpTo(ProbeResources, MaxLen) }
    \cup { [NoProbe EXCEPT !.fn = "check", !.filters = <<f>>, !.offer = o] :
            f \in ProbeResourceFilters, o \in ProbeOffers(MaxLen) }
    \cup { [NoProbe EXCEPT !.fn = "offer_check", !.filters = fs, !.offer = o] :
            fs \in SeqsUpTo(ProbeFilters, MaxLen), o \in ProbeOffers(1) }
    \cup { [NoProbe EXCEPT !.fn = "resourceOffers", !.batch = b,
                           !.current = IF held THEN Head(ProbeItems(ops))
                                       ELSE NoTask,
                           !.queue = IF held THEN Tail(ProbeItems(ops))
                                     ELSE ProbeItems(ops)] :
            b \in Batches, held \in BOOLEAN,
            ops \in SeqsUpTo(OperatorChoices, MaxSubmits) \ {<<>>} }

PureInit == SessionInit /\ probe \in ProbeInputs

\* merge_resources(default_resources, task_resources)
ApplyMerge ==
    /\ probe.fn = "merge_resources" /\ ~probe.done
    /\ \E r \in { merge_resources(probe.defaults, probe.overrides) } :
           probe' = [probe EXCEPT !.done = TRUE,
                                  !.result = [NoResult EXCEPT !.ok = r.ok,
                                                              !.val = r.val]]
    /\ UNCHANGED svars

\* AirflowMesosResourceFilter.check(offer)
ApplyCheck ==
    /\ probe.fn = "check" /\ ~probe.done
    /\ probe' = [probe EXCEPT
                     !.done = TRUE,
                     !.result = [NoResult EXCEPT !.verdict =
                                    FilterCheck(probe.filters[1], probe.offer)]]
    /\ UNCHANGED svars

\* AirflowMesosOfferFilter(filters).check(offer)
ApplyOfferCheck ==
    /\ probe.fn = "offer_check" /\ ~probe.done
    /\ probe' = [probe EXCEPT
                     !.done = TRUE,
                     !.result = [NoResult EXCEPT !.verdict =
                                    OfferFilterCheck(probe.filters, probe.offer)]]
    /\ UNCHANGED svars

\* resourceOffers(driver, offers) of a new session, no collaborator raising
ApplyRound ==
    /\ probe.fn = "resourceOffers" /\ ~probe.done
    /\ \E s \in { resourceOffers(probe.queue, probe.current, 0, << >>,
                                  probe.batch, [at |-> 0, kind |-> "none"]) } :
           probe' = [probe EXCEPT !.done = TRUE,
                                  !.result = [NoResult EXCEPT !.ok = ~s.raised,
                                                              !.calls = s.calls,
                                                              !.log = s.log]]
    /\ UNCHANGED svars

PureNext == ApplyMerge \/ ApplyCheck \/ ApplyOfferCheck \/ ApplyRound

PureSpec == PureInit /\ [][PureNext]_vars

\* ------------------------------------------------------------------ claims
\* the launchTasks requests of the last round that name offer i
CallsNaming(i) ==
    { c \in 1..Len(last.calls) :
        \E j \in 1..Len(last.calls[c].offers) : last.calls[c].offers[j] = i }

\* the submissions launched with task id `id`
LaunchesOf(id) == { s \in 1..nsub : launchLog[s].id = id }

Launched(s) == launchLog[s].id # <<>>

\* C1: at the end of every round, normal or caught, each offer of the batch is
\* named by exactly one launchTasks request: one carrying that offer alone and
\* exactly one task, or one carrying no task.
C1_EachOfferOneWay ==
    last.op = "resourceOffers" =>
        \A i \in 1..last.n :
            /\ Cardinality(CallsNaming(i)) = 1
            /\ \A c \in CallsNaming(i) :
                  \/ last.calls[c].tasks = <<>>
                  \/ /\ Len(last.calls[c].tasks) = 1
                     /\ last.calls[c].offers = <<i>>

\* C2: items are launched in submission order: a later submission is never
\* launched while an earlier one has not been launched.
C2_LaunchedInOrder ==
    \A i, j \in 1..nsub : (i < j /\ Launched(j)) => Launched(i)

\* C3: in every reachable state, a statusUpdate for a tracked id with a state
\* of finished / failed / killed / error / lost puts exactly one result, (key,
\* SUCCESS) for finished and (key, FAILED) otherwise, with the key of the
\* submission launched under that id, and removes the entry and no other.
C3_TerminalResult ==
    \A id \in DOMAIN tracking, state \in HandledTerminal :
        LET s == statusUpdate(tracking, scheduler_results, id, state)
            outcome == IF state = "TASK_FINISHED" THEN "SUCCESS" ELSE "FAILED"
        IN  /\ \E sub \in LaunchesOf(id) :
                  s.results = Append(scheduler_results,
                                     <<launchLog[sub].key, outcome>>)
            /\ \A sub \in LaunchesOf(id) : launchLog[sub].key = tracking[id].key
            /\ DOMAIN s.tracking = (DOMAIN tracking) \ {id}
            /\ \A x \in DOMAIN s.tracking : s.tracking[x] = tracking[x]

\* a failure-class terminal status for a tracked task was just processed
C3_Witness ==
    /\ last.op = "statusUpdate" /\ last.tracked /\ last.state = "TASK_LOST"
    /\ last.id \notin DOMAIN tracking
    /\ scheduler_results # <<>>
    /\ scheduler_results[Len(scheduler_results)] = <<last.id[2], "FAILED">>

\* C4: for every task id, the results put on the result queue never outnumber
\* the launch requests issued with that id.
C4_AtMostOneResultPerLaunch ==
    \A id \in TaskIds : emitted[id] <= Cardinality(LaunchesOf(id))

\* a status was re-delivered for a task whose result was already put and whose
\* entry is gone: no second result
C4_Witness ==
    /\ last.op = "statusUpdate" /\ ~last.tracked /\ last.id # <<>>
    /\ emitted[last.id] = 1
    /\ Cardinality(LaunchesOf(last.id)) = 1

\* C5: a statusUpdate for an id that is not tracked leaves the result queue,
\* the tracking mapping, the current slot and the submission queue unchanged.
C5_UnknownIdNoEffect ==
    [][(last'.op = "statusUpdate" /\ ~last'.tracked) =>
          UNCHANGED << scheduler_results, tracking, current_task,
                       scheduler_tasks >>]_vars

\* an untracked id got a status update while other tasks were tracked
C5_Witness ==
    /\ last.op = "statusUpdate" /\ ~last.tracked
    /\ DOMAIN tracking # {}

\* the request the flag and the queue call for
ExpectedReqs(queue, flag) ==
    IF queue = <<>> /\ ~flag THEN <<"suppress">>
    ELSE IF queue # <<>> /\ flag THEN <<"revive">>
    ELSE <<>>

\* C6: a submit or a sync sends suppress exactly when it finds the queue empty
\* and the flag false, revive exactly when it finds the queue non-empty and the
\* flag true, and nothing otherwise; no other step sends a request or changes
\* the flag; a second idle sync in a row sends nothing; and on one driver a
\* request is never the same as the one before it.
C6_SuppressReviveOnChange ==
    [][/\ last'.op \in {"execute_async", "sync"} =>
            /\ last'.reqs = ExpectedReqs(scheduler_tasks', suppressed)
            /\ suppressed' = (scheduler_tasks' = <<>>)
       /\ last'.op \notin {"execute_async", "sync"} =>
            /\ last'.reqs = <<>>
            /\ suppressed' = suppressed
       /\ (last.op = "sync" /\ last'.op = "sync" /\ scheduler_tasks = <<>>) =>
            last'.reqs = <<>>
       /\ \A i \in 1..Len(last'.reqs) :
            last'.reqs[i] # (IF last'.rebuilt THEN "none" ELSE driver_offers)
      ]_vars

\* an idle sync that found the queue empty and offers already suppressed
C6_Witness ==
    /\ last.op = "sync" /\ last.reqs = <<>> /\ ~last.rebuilt
    /\ scheduler_tasks = <<>> /\ suppressed /\ driver_offers = "suppress"

\* C7: a round that raised ends with a launchTasks request that names every
\* offer of the delivered batch and carries no task.
C7_CaughtReleasesBatch ==
    (last.op = "resourceOffers" /\ last.raised) =>
        /\ last.calls # <<>>
        /\ last.calls[Len(last.calls)] =
               [offers |-> [i \in 1..last.n |-> i], tasks |-> <<>>]

\* a round raised after it had launched a task
C7_Witness ==
    /\ last.op = "resourceOffers" /\ last.raised
    /\ Len(last.calls) >= 2

\* C8: the round after a round that raised launches the item first in line
\* when its batch holds an offer that the item's requirements accept.
C8_LaunchedAfterCaught ==
    [][(/\ last.op = "resourceOffers" /\ last.raised
        /\ last'.op = "resourceOffers" /\ last'.fit # 0)
          => launchLog'[FirstInLine.sub].id # <<>>]_vars

\* C9: no task id is carried by two launch requests.
C9_IdsNeverReused ==
    \A id \in TaskIds : Cardinality(LaunchesOf(id)) <= 1

\* the ids launched in the last round
LastLaunched ==
    { last.calls[c].tasks[1] :
        c \in { x \in 1..Len(last.calls) : last.calls[x].tasks # <<>> } }

\* C10: the tracking mapping holds exactly the ids launched with no finished /
\* failed / killed / error / lost status processed since, and the entries of
\* the ids just launched carry no status.
C10_TrackingIsUnresolved ==
    /\ DOMAIN tracking = unresolved
    /\ last.op = "resourceOffers" =>
          \A id \in LastLaunched :
              id \in DOMAIN tracking /\ tracking[id].status = "None"

\* entries launched before a driver abort are still tracked after the rebuild
C10_Witness ==
    /\ last.op = "sync" /\ last.rebuilt
    /\ \E id \in DOMAIN tracking : tracking[id].status = "None"

\* the calls of scheduler.reconcile in the last sync
ReconcileCalls(events) ==
    Cardinality({ i \in 1..Len(events) : events[i] = "reconcile" })

\* C11: every call of reconcile sends one reconcileTasks request when the
\* tracking mapping holds a task; with an empty mapping no request is sent and
\* the mapping is left as it was.
C11_ReconcileOnlyWhenTracked ==
    [][last'.op = "sync" =>
        /\ Len(last'.reconciles) =
               (IF DOMAIN tracking' = {} THEN 0 ELSE ReconcileCalls(last'.events))
        /\ (DOMAIN tracking = {} => tracking' = tracking)]_vars

\* a sync whose reconciliation was due while no task was tracked
C11_Witness ==
    /\ last.op = "sync" /\ last.due
    /\ DOMAIN tracking = {}
    /\ last.reconciles = <<>>
    /\ nsub > 0

\* C12: every reconcileTasks request carries a status for every entry of the
\* tracking mapping, the entries launched without a status update included.
C12_SnapshotCoversTracked ==
    last.op = "sync" =>
        \A r \in 1..Len(last.reconciles) :
            { st.task_id : st \in last.reconciles[r] } = DOMAIN tracking

\* C13: a sync that finds the driver aborted rebuilds and starts the session
\* and calls reconcile next, whether or not the periodic reconciliation is
\* due and before any suppress or revive request; a sync that finds the
\* driver not aborted rebuilds nothing.
C13_RestartForcesReconcile ==
    [][last'.op = "sync" =>
        /\ last'.rebuilt = (driver_status = "aborted")
        /\ ~last'.stopped => driver_status' = "running"
        /\ last'.rebuilt =>
               /\ Len(last'.events) >= 2
               /\ SubSeq(last'.events, 1, 2) = <<"start", "reconcile">>
               /\ DOMAIN tracking' # {} => Len(last'.reconciles) >= 1
        /\ ~last'.rebuilt =>
               /\ \A i \in 1..Len(last'.events) : last'.events[i] # "start"
               /\ current_task' = current_task
               /\ task_counter' = task_counter
               /\ ~last'.due => last'.reconciles = <<>>
        /\ \A i, j \in 1..Len(last'.events) :
               (last'.events[i] \in {"suppress", "revive"}
                /\ last'.events[j] = "reconcile") => j < i]_vars

\* a restart, not due for the periodic reconciliation, that sent a
\* reconciliation request and then a suppress request
C13_Witness ==
    /\ last.op = "sync" /\ last.rebuilt /\ ~last.due
    /\ last.reconciles # <<>>
    /\ last.reqs # <<>>

\* the defaults whose name no override has, in their order
SurvivingDefaults(defaults, overrides) ==
    SelectSeq(defaults,
              LAMBDA d : \A i \in 1..Len(overrides) : overrides[i].name # d.name)

\* C16: merge_resources returns, without raising, the defaults whose name no
\* override has, in their order, followed by all the overrides in their order.
C16_MergeReplacesByName ==
    (probe.fn = "merge_resources" /\ probe.done) =>
        /\ probe.result.ok
        /\ probe.result.val =
               SurvivingDefaults(probe.defaults, probe.overrides) \o probe.overrides

\* the verdicts of the constituents of the composite filter probed, each
\* evaluated alone
Verdict(i) == FilterCheck(probe.filters[i], probe.offer)

\* C17: the composite filter accepts an offer iff every constituent accepts
\* it, accepts every offer when it has no constituent, and rejects at its
\* first constituent that rejects, whatever the later ones would do.
C17_CompositeIsConjunction ==
    (probe.fn = "offer_check" /\ probe.done) =>
        /\ probe.result.verdict = "T" <=>
               \A i \in 1..Len(probe.filters) : Verdict(i) = "T"
        /\ \A i \in 1..Len(probe.filters) :
               (Verdict(i) = "F" /\ \A j \in 1..(i - 1) : Verdict(j) = "T")
                   => probe.result.verdict = "F"

\* a composite filter whose first constituent rejects the offer and whose
\* second constituent raises on it
C17_Witness ==
    /\ probe.fn = "offer_check" /\ probe.done
    /\ Len(probe.filters) = 2
    /\ Verdict(1) = "F" /\ Verdict(2) = "X"
    /\ probe.result.verdict = "F"

\* the filter probed alone and the resources of its name the offer exposes
ProbeFilter == probe.filters[1]
ProbeFound == FoundResources(probe.offer.resources, ProbeFilter.name)

\* C18: against one scalar resource of its name the filter matches, in
\* include mode, iff offered >= required and, in exclude mode, iff
\* offered < required; against an offer with no resource of its name it does
\* not match in either mode.
C18_ScalarThreshold ==
    (probe.fn = "check" /\ probe.done) =>
        /\ (Len(ProbeFound) = 1 /\ ProbeFound[1].type = "SCALAR") =>
               probe.result.verdict =
                   (IF ProbeFilter.mode = "include"
                    THEN Bool3(ProbeFound[1].scalar >= ProbeFilter.value)
                    ELSE Bool3(ProbeFound[1].scalar < ProbeFilter.value))
        /\ Len(ProbeFound) = 0 => probe.result.verdict = "F"

\* an exclude filter checked against a scalar resource equal to its value
C18_Witness ==
    /\ probe.fn = "check" /\ probe.done
    /\ Len(ProbeFound) = 1 /\ ProbeFound[1].type = "SCALAR"
    /\ ProbeFilter.mode = "exclude"
    /\ ProbeFound[1].scalar = ProbeFilter.value
    /\ probe.result.verdict = "F"

\* the required value lies in one of the ranges, both ends included
InSomeRange(v, ranges) ==
    \E i \in 1..Len(ranges) : ranges[i][1] <= v /\ v <= ranges[i][2]

\* C19: against one resource of its name that is a set of ranges the filter
\* matches, in include mode, iff the required value lies in one of the ranges
\* and, in exclude mode, iff it lies in none; an empty set of ranges matches in
\* exclude mode only.
C19_RangeSetAny ==
    (probe.fn = "check" /\ probe.done
     /\ Len(ProbeFound) = 1 /\ ProbeFound[1].type = "RANGES") =>
        probe.result.verdict =
            (IF ProbeFilter.mode = "include"
             THEN Bool3(InSomeRange(ProbeFilter.value, ProbeFound[1].ranges))
             ELSE Bool3(~InSomeRange(ProbeFilter.value, ProbeFound[1].ranges)))

\* an include filter whose value is the end of the second range, and of no
\* other range, of the set
C19_Witness ==
    /\ probe.fn = "check" /\ probe.done
    /\ Len(ProbeFound) = 1 /\ ProbeFound[1].type = "RANGES"
    /\ ProbeFilter.mode = "include"
    /\ Len(ProbeFound[1].ranges) = 2
    /\ ~InRange(ProbeFilter.value, ProbeFound[1].ranges[1])
    /\ ProbeFound[1].ranges[2][2] = ProbeFilter.value
    /\ probe.result.verdict = "T"

\* C20: a filter checked against an offer with more than one resource of its
\* name, or whose resource of its name is a set or a text, raises.
C20_FilterRaises ==
    (probe.fn = "check" /\ probe.done) =>
        /\ Len(ProbeFound) > 1 => probe.result.verdict = "X"
        /\ (Len(ProbeFound) = 1 /\ ProbeFound[1].type \in {"SET", "TEXT"}) =>
               probe.result.verdict = "X"

\* a check that raised on two scalar resources of the filter's name, each of
\* which alone matches
C20_Witness ==
    /\ probe.fn = "check" /\ probe.done
    /\ Len(ProbeFound) = 2
    /\ \A i \in 1..2 : /\ ProbeFound[i].type = "SCALAR"
                       /\ check_scalar(ProbeFilter, ProbeFound[i]) = "T"
    /\ probe.result.verdict = "X"

\* the operations of the caller context
CallerOps == {"queue_command", "execute_async", "sync", "abort"}

\* C15: no operation of the caller context reads the tracking mapping: none
\* of them calls reconcile, which reads every entry and its status.
C15_TrackingOnlyInCallbacks ==
    last.op \in CallerOps => ReconcileCalls(last.events) = 0

InQueue == { scheduler_tasks[i].sub : i \in 1..Len(scheduler_tasks) }

\* C21: no submission has more than one launch request; the item in the
\* current slot and the items in the queue have none, and the item in the slot
\* is not in the queue; and a round takes an item from the queue over an
\* occupied slot only after it has launched the item in the slot.
C21_ConsumedOnce ==
    /\ [](/\ \A s \in 1..nsub : launchLog[s].n <= 1
          /\ \A s \in InQueue : launchLog[s].n = 0
          /\ current_task # NoTask =>
                 /\ launchLog[current_task.sub].n = 0
                 /\ current_task.sub \notin InQueue)
    /\ [][(last'.op = "resourceOffers" /\ current_task # NoTask
           /\ scheduler_tasks' # scheduler_tasks)
          => launchLog'[current_task.sub].n = 1]_vars

\* a round that launched two items, one after the other, each once
C21_Witness ==
    /\ last.op = "resourceOffers"
    /\ Len(last.calls) = 3
    /\ nsub = 2 /\ \A s \in 1..2 : launchLog[s].n = 1
    /\ current_task = NoTask /\ scheduler_tasks = <<>>

\* the submissions taken from the queue and not launched
Pending == { s \in 1..nsub : launchLog[s].n = 0 /\ s \notin InQueue }

\* a round that does not raise and in which no offer of the batch fits the
\* item first in line leaves that item in the current slot, issues no launch
\* request, emits no result, and leaves the tracking mapping and the rest of
\* the queue as they were
DeferralRound ==
    [][(last'.op = "resourceOffers" /\ ~last'.raised /\ last'.fit = 0
        /\ FirstInLine # NoTask) =>
           /\ current_task' = FirstInLine
           /\ launchLog' = launchLog
           /\ Len(last'.calls) = 1 /\ last'.calls[1].tasks = <<>>
           /\ scheduler_results' = scheduler_results
           /\ tracking' = tracking
           /\ scheduler_tasks' = IF current_task # NoTask THEN scheduler_tasks
                                 ELSE Tail(scheduler_tasks)]_vars

\* C22: a round in which no offer fits the current item defers it (see
\* DeferralRound), and an item taken from the queue and not launched is the
\* first one matched against the next delivered batch.
C22_DeferredStaysFirst ==
    /\ DeferralRound
    /\ [][last'.op = "resourceOffers" =>
              \A s \in Pending : FirstInLine.sub = s]_vars

\* C24: a status update for a tracked task whose state is none of the five
\* resolved ones (staging, running, dropped, gone) replaces the status of the
\* entry, keeps the entry and its key, and puts no result.
C24_UnhandledOnlyUpdates ==
    [][(last'.op = "statusUpdate" /\ last'.tracked
        /\ last'.state \notin HandledTerminal) =>
           /\ tracking' = [tracking EXCEPT ![last'.id].status = last'.state]
           /\ scheduler_results' = scheduler_results]_vars

\* a tracked task was reported gone and its entry now carries that state
C24_Witness ==
    /\ last.op = "statusUpdate" /\ last.tracked
    /\ last.state = "TASK_GONE"
    /\ last.id \in DOMAIN tracking
    /\ tracking[last.id].status = "TASK_GONE"
    /\ tracking[last.id].key = last.id[2]

\* C26: no submitted item is silently dropped: every item handed to the
\* scheduler is still in the submission queue, or is in the current slot, or
\* has been launched and is tracked or has had a result put for it; also
\* after the session is rebuilt.
C26_NoItemDropped ==
    \A s \in 1..nsub :
        \/ s \in InQueue
        \/ current_task # NoTask /\ current_task.sub = s
        \/ /\ launchLog[s].n > 0
           /\ \/ launchLog[s].id \in DOMAIN tracking
              \/ emitted[launchLog[s].id] > 0

\* C27: after every submit and every sync(), the suppression flag is true
\* exactly when the last suppress/revive request sent to the driver in use was
\* a suppress (a driver that has received neither counts as not suppressed).
C27_FlagAgreesWithDriver ==
    last.op \in {"execute_async", "sync"} =>
        (suppressed <=> driver_offers = "suppress")

\* the items of the probed round in the order the round works on them, the
\* offer its k-th launch request used, and the offers of the batch no earlier
\* launch request of the round has used
RoundItems ==
    (IF probe.current # NoTask THEN <<probe.current>> ELSE <<>>) \o probe.queue
UsedOffer(k) == probe.result.calls[k].offers[1]
PoolBefore(k) ==
    { i \in 1..Len(probe.batch) : \A j \in 1..(k - 1) : UsedOffer(j) # i }

\* C23: each launch of a round uses the first offer, in delivery order, of
\* those no earlier launch of the round has used that the item's composite
\* filter accepts; the unused offers before it are ones the filter rejected,
\* and the offers no launch used are those the round releases at its end.
C23_FirstAcceptedOffer ==
    (probe.fn = "resourceOffers" /\ probe.done) =>
        /\ \A k \in 1..Len(probe.result.log) :
               /\ Len(probe.result.calls[k].offers) = 1
               /\ Len(probe.result.calls[k].tasks) = 1
               /\ probe.result.log[k][1] = RoundItems[k].sub
               /\ UsedOffer(k) \in PoolBefore(k)
               /\ CheckOf[RoundItems[k].op][probe.batch[UsedOffer(k)].kind] = "T"
               /\ \A i \in PoolBefore(k) :
                      i < UsedOffer(k) =>
                          CheckOf[RoundItems[k].op][probe.batch[i].kind] = "F"
        /\ probe.result.ok =>
               LET rel == probe.result.calls[Len(probe.result.calls)].offers
               IN  { rel[i] : i \in 1..Len(rel) } =
                       PoolBefore(Len(probe.result.log) + 1)

\* a round with two launches, the second on an offer delivered before the one
\* the first used: the first item's filter rejected it and it stayed in the pool
C23_Witness ==
    /\ probe.fn = "resourceOffers" /\ probe.done
    /\ Len(probe.result.log) = 2
    /\ UsedOffer(2) < UsedOffer(1)
    /\ CheckOf[RoundItems[1].op][probe.batch[UsedOffer(2)].kind] = "F"

\* every item waiting in the scheduler (queue and current slot) has
\* requirements that some kind of offer satisfies
AllSatisfiable ==
    \A t \in { scheduler_tasks[i] : i \in 1..Len(scheduler_tasks) }
             \cup ({current_task} \ {NoTask}) :
        \E k \in 1..Len(OfferKinds) : CheckOf[t.op][k] = "T"

\* C25: while the driver is never aborted, sync() keeps being called and
\* fitting batches keep being delivered whenever offers are not suppressed, an
\* item handed to the scheduler is eventually launched (as long as every item
\* waiting can be satisfied and the task counter is below its bound) -- also
\* one left in the current slot by a round in which no offer fitted, with no
\* further submission.
C25_EventuallyLaunched ==
    \A s \in 1..MaxSubmits :
        (nsub >= s /\ launchLog[s].n = 0 /\ AllSatisfiable)
            ~> \/ nsub >= s /\ launchLog[s].n > 0
               \/ rebuilds > 0
               \/ ~AllSatisfiable
               \/ task_counter >= MaxCounter
====
